---- MODULE Spec2Model ----
(***************************************************************************)
(* A state-machine model of lutris/installer/installer.py, the             *)
(* LutrisInstaller class: identity resolution, service binding, file       *)
(* planning, configuration composition and persistence.                    *)
(*                                                                         *)
(* Python's None is the string None for string-valued fields and the id    *)
(* NoId for database ids; Truthy is Python truthiness of such a field.     *)
(***************************************************************************)
EXTENDS Integers, Sequences, FiniteSets, TLC

VARIABLES
    installer,      \* the installer dict handed to __init__ (top-level fields)
    script,         \* installer["script"], the caller-owned script dict
    script0,        \* the script as it was when the constructor received it
    ctorArgs,       \* the service and appid arguments of __init__
    interp,         \* the interpreter: game_files and the state of target_path
    provider,       \* state of the service objects: online, connected, has_extras
    constructed,    \* whether __init__ has run
    service,        \* self.service (a service id, or None)
    service_appid,  \* self.service_appid
    game_id,        \* self.game_id
    game_id0,       \* the id get_game_id resolved in __init__
    is_gog,         \* self.is_gog
    script_files,   \* self.script_files
    files,          \* self.files
    store,          \* the games table of the local database: id -> row
    store0,         \* the games table as it was before the constructor ran
    configs,        \* the game config files: configpath handle -> written config
    config,         \* the configuration the last get_game_config call composed
    log,            \* the calls made to the external collaborators, in order
    ret             \* what the last method call returned or raised

vars == <<installer, script, script0, ctorArgs, interp, provider, constructed,
          service, service_appid, game_id, game_id0, is_gog, script_files,
          files, store, store0, configs, config, log, ret>>

-----------------------------------------------------------------------------
(* Bounds of the model *)

\* number of method calls made on one installer after its construction
MaxCalls == 3

\* number of file declarations in the script
MaxFiles == 2

-----------------------------------------------------------------------------
(* Values *)

None == "None"
NoId == 0

\* Python truthiness of a string-or-None field
Truthy(x) == x \notin {None, ""}

\* Python truthiness of a database id
TruthyId(i) == i # NoId

\* Python's `a or b` on string-or-None fields
Or(a, b) == IF Truthy(a) THEN a ELSE b

EmptySec == [k \in {} |-> 0]

\* dict.get(key, None) on a section whose values are config values
SecGet(sec, key) == IF key \in DOMAIN sec THEN sec[key].text ELSE None

\* dict.update: the right operand wins on conflicting keys
DictUpdate(d, e) ==
    [k \in (DOMAIN d) \cup (DOMAIN e) |-> IF k \in DOMAIN e THEN e[k] ELSE d[k]]

\* a scalar config value: a string, with the number of times
\* interpreter._substitute has been applied to it, or a boolean
Str(t, n) == [kind |-> "str", text |-> t, subs |-> n]
Bool(b) == [kind |-> "bool", text |-> IF b THEN "True" ELSE "False", subs |-> 0]

-----------------------------------------------------------------------------
(* The external collaborators *)

\* SERVICES, the module-level registry of service classes
SERVICES == {"steam", "gog", "humblebundle", "egs"}

\* `"steam" in runner`
ContainsSteam(runner) == runner \in {"steam", "winesteam"}

\* version.lower()
Lower(s) ==
    CASE s = "GOG release" -> "gog release"
      [] s = "Humble Bundle" -> "humble bundle"
      [] s = "True" -> "true"
      [] s = "TRUE" -> "true"
      [] s = "False" -> "false"
      [] OTHER -> s

ContainsHumble(s) == s \in {"humble bundle"}
ContainsGog(s) == s \in {"gog release"}

\* interpreter._substitute: string.Template substitution of the script
\* variables; $INNER is a variable whose value holds a further placeholder
SubstituteText(t) ==
    CASE t = "$GAMEDIR/game" -> "/target/game"
      [] t = "$INNER" -> "$GAMEDIR/game"
      [] t = "http://host/$INNER" -> "http://host/$GAMEDIR/game"
      [] t = "http://host/$GAMEDIR/game" -> "http://host//target/game"
      [] OTHER -> t

_substitute(v) ==
    IF v.kind = "str" THEN Str(SubstituteText(v.text), v.subs + 1) ELSE v

AUTO_ELF_EXE == "_xXx_AUTO_ELF_xXx_"
AUTO_WIN32_EXE == "_xXx_AUTO_WIN32_xXx_"

\* get_game_by_field(value, field): the first row whose field has the value
Matching(value, field) == {i \in DOMAIN store : store[i][field] = value}

get_game_by_field(value, field) ==
    IF Matching(value, field) = {} THEN NoId
    ELSE CHOOSE i \in Matching(value, field) :
            \A j \in Matching(value, field) : i <= j

Lookup(value, field) == [op |-> "get_game_by_field", a |-> get_game_by_field(value, field), b |-> 0]

Ev(op, a, b) == [op |-> op, a |-> a, b |-> b]

\* what a method call left behind: its name, how it ended, the id it
\* returned, the errors it listed, and the number of calls made so far
Ret(op, status, val, errors, n) ==
    [op |-> op, status |-> status, val |-> val, errors |-> errors, n |-> n]

-----------------------------------------------------------------------------
(* ServiceBinder: get_service, get_appid *)

get_service(runner, version, initial) ==
    IF Truthy(initial) THEN initial
    ELSE IF ContainsSteam(runner) /\ "steam" \in SERVICES THEN "steam"
    ELSE IF ContainsHumble(Lower(version)) /\ "humblebundle" \in SERVICES
        THEN "humblebundle"
    ELSE IF ContainsGog(Lower(version)) /\ "gog" \in SERVICES THEN "gog"
    ELSE None

\* get_appid as it would be if the caller's identifier were tested first
get_appid_initial_first(inst, scr, svc, initial) ==
    IF Truthy(initial) THEN initial
    ELSE IF inst.is_dlc THEN inst.dlcid
    ELSE IF ~Truthy(svc) THEN None
    ELSE IF svc = "steam" THEN Or(inst.steamid, inst.service_id)
    ELSE IF svc = "gog"
        THEN Or(SecGet(scr.game, "gogid"), Or(inst.gogid, inst.service_id))
    ELSE IF svc = "humblebundle"
        THEN Or(SecGet(scr.game, "humbleid"),
                Or(inst.humblestoreid, inst.service_id))
    ELSE None

get_appid(inst, scr, svc, initial) ==
    IF inst.is_dlc THEN inst.dlcid
    ELSE IF Truthy(initial) THEN initial
    ELSE IF ~Truthy(svc) THEN None
    ELSE IF svc = "steam" THEN Or(inst.steamid, inst.service_id)
    ELSE IF svc = "gog"
        THEN Or(SecGet(scr.game, "gogid"), Or(inst.gogid, inst.service_id))
    ELSE IF svc = "humblebundle"
        THEN Or(SecGet(scr.game, "humbleid"),
                Or(inst.humblestoreid, inst.service_id))
    ELSE None

-----------------------------------------------------------------------------
(* IdentityResolver: get_game_id *)

\* get_game_id as it would be if it reused only rows that are not installed
get_game_id_ignoring_extends(game_slug, extends) ==
    LET existing_game == get_game_by_field(game_slug, "slug") IN
    IF TruthyId(existing_game) /\ ~store[existing_game].installed
    THEN existing_game
    ELSE NoId

get_game_id(game_slug, extends) ==
    LET existing_game == get_game_by_field(game_slug, "slug") IN
    IF TruthyId(existing_game)
       /\ (Truthy(extends) \/ ~store[existing_game].installed)
    THEN existing_game
    ELSE NoId

-----------------------------------------------------------------------------
(* __init__ *)

LutrisInstaller ==
    /\ ~constructed
    /\ constructed' = TRUE
    /\ service' = get_service(installer.runner, installer.version, ctorArgs.service)
    /\ service_appid' = get_appid(installer, script, service', ctorArgs.appid)
    /\ script_files' = script.files
    /\ files' = <<>>
    /\ game_id' = get_game_id(installer.game_slug, script.extends)
    /\ game_id0' = game_id'
    /\ is_gog' = FALSE
    /\ log' = Append(log, Lookup(installer.game_slug, "slug"))
    /\ ret' = Ret("__init__", "ok", NoId, {}, 0)
    /\ UNCHANGED <<installer, script, script0, store0, ctorArgs, interp, provider,
                   store, configs, config>>

-----------------------------------------------------------------------------
(* get_errors *)

ErrMissing(field) ==
    CASE field = "runner" -> "Missing field 'runner'"
      [] field = "game_name" -> "Missing field 'game_name'"
      [] field = "game_slug" -> "Missing field 'game_slug'"

\* getattr(self, field) for the fields __init__ copies from the installer
SelfField(inst, field) ==
    CASE field = "runner" -> inst.runner
      [] field = "game_name" -> inst.name
      [] field = "game_slug" -> inst.game_slug
ErrLibretro == "Missing libretro core in game section"
ErrSteam == "Missing appid for Steam game"
ErrBoth == "Scripts can't have both extends and requires"

\* get_errors as it would be without its last check
ErrorsOfWithoutBoth(inst, scr) ==
    {ErrMissing(f) : f \in {g \in {"runner", "game_name", "game_slug"} :
                               ~Truthy(SelfField(inst, g))}}

\* the script of a constructed installer is a dict (__init__ calls its get
\* method), so the first check of get_errors never fires
ErrorsOf(inst, scr) ==
    {ErrMissing(f) : f \in {g \in {"runner", "game_name", "game_slug"} :
                               ~Truthy(SelfField(inst, g))}}
    \cup (IF inst.runner = "libretro"
             /\ (~scr.hasGame \/ "core" \notin DOMAIN scr.game)
          THEN {ErrLibretro} ELSE {})
    \cup (IF inst.runner = "steam" /\ ~Truthy(SecGet(scr.game, "appid"))
          THEN {ErrSteam} ELSE {})
    \cup (IF Truthy(scr.requires) /\ Truthy(scr.extends)
          THEN {ErrBoth} ELSE {})

get_errors ==
    /\ constructed
    /\ ret.n < MaxCalls
    /\ ret' = Ret("get_errors", "ok", NoId, ErrorsOf(installer, script), ret.n + 1)
    /\ UNCHANGED <<installer, script, script0, store0, ctorArgs, interp, provider,
                   constructed, service, service_appid, game_id, game_id0,
                   is_gog, script_files, files, store, configs, config, log>>

-----------------------------------------------------------------------------
(* FileAcquisitionPlanner: get_user_provided_file, prepare_game_files *)

File(id, url, filename) == [id |-> id, url |-> url, filename |-> filename]

ManualUrl == "N/A: Please select the installer"
PlaceholderUrl == "N/A: Provider installer file"
ModdbUrl == "https://www.moddb.com/downloads/start/1"

\* url.startswith("N/A")
StartsWithNA(url) == url \in {ManualUrl, PlaceholderUrl}

\* moddbhelper.is_moddb_url and get_moddb_download_url
is_moddb_url(url) == url = ModdbUrl
get_moddb_download_url(url) == "https://www.moddb.com/downloads/mirror/1"

UserProvided(fs) == {i \in DOMAIN fs : StartsWithNA(fs[i].url)}

get_user_provided_file(fs) ==
    IF UserProvided(fs) = {} THEN None
    ELSE fs[CHOOSE i \in UserProvided(fs) : \A j \in UserProvided(fs) : i <= j].id

\* [x for x in fs if keep(x)], for keep = "id differs from fid"
RECURSIVE WithoutId(_, _)
WithoutId(fs, fid) ==
    IF fs = <<>> THEN <<>>
    ELSE IF Head(fs).id # fid THEN <<Head(fs)>> \o WithoutId(Tail(fs), fid)
    ELSE WithoutId(Tail(fs), fid)

\* the URL rewriting of the working copy of one file
SubstitutedFile(f) ==
    LET u == SubstituteText(f.url) IN
    File(f.id, IF is_moddb_url(u) THEN get_moddb_download_url(u) ELSE u, f.filename)

WorkingCopy(fs, fid) ==
    LET kept == WithoutId(fs, fid) IN
    [i \in DOMAIN kept |-> SubstitutedFile(kept[i])]

Placeholder(fid) == File(fid, PlaceholderUrl, "")

\* where a non-empty provider answer goes in the working copy
WithProviderFiles(working, installer_files) == working \o installer_files

\* the placeholder as it would be if it were appended
WithPlaceholderAppended(working, fid) == working \o <<Placeholder(fid)>>

\* where the manual-entry placeholder goes in the working copy
WithPlaceholder(working, fid) == <<Placeholder(fid)>> \o working

\* what service.get_installer_files / get_patch_files may answer for a file id
ProviderAnswers(fid) ==
    { <<>>,
      <<File(fid, "https://provider/installer", "setup.exe")>>,
      <<File(fid, "https://provider/installer", "setup.exe"),
        File("extra", "https://provider/extra", "manual.pdf")>> }

\* the auth check as it would be if it tested for an offline provider
NotAuthenticatedWhenOffline == Truthy(service) /\ ~provider.online /\ ~provider.connected

\* the auth check of prepare_game_files
NotAuthenticated == Truthy(service) /\ provider.online /\ ~provider.connected

prepare_game_files(patch_version) ==
    /\ constructed
    /\ ret.n < MaxCalls
    /\ UNCHANGED <<installer, script, script0, store0, ctorArgs, interp, constructed,
                   service, service_appid, game_id, game_id0, is_gog,
                   script_files, store, configs, config>>
    /\ IF script_files = <<>>
       THEN /\ ret' = Ret("prepare_game_files", "ok", NoId, {}, ret.n + 1)
            /\ UNCHANGED <<files, log, provider>>
       ELSE IF NotAuthenticated
       THEN /\ ret' = Ret("prepare_game_files", "AuthenticationError", NoId, {},
                          ret.n + 1)
            /\ UNCHANGED <<files, log, provider>>
       ELSE LET installer_file_id ==
                    IF Truthy(service) THEN get_user_provided_file(script_files)
                    ELSE None
                working == WorkingCopy(script_files, installer_file_id)
                request == IF Truthy(patch_version) THEN "get_patch_files"
                           ELSE "get_installer_files"
            IN
            IF Truthy(installer_file_id) /\ Truthy(service)
            THEN /\ provider' =
                       IF provider.has_extras
                       THEN [provider EXCEPT !.selected_extras = interp.extras]
                       ELSE provider
                 /\ \/ \E installer_files \in ProviderAnswers(installer_file_id) :
                          /\ files' =
                               IF installer_files # <<>>
                               THEN WithProviderFiles(working, installer_files)
                               ELSE WithPlaceholder(working, installer_file_id)
                          /\ log' = Append(log, Ev(request, Len(installer_files), 0))
                          /\ ret' = Ret("prepare_game_files", "ok", NoId, {},
                                        ret.n + 1)
                    \/ \* the provider's request raises
                       /\ files' = working
                       /\ log' = Append(log, Ev(request, -1, 0))
                       /\ ret' = Ret("prepare_game_files", "ProviderError", NoId,
                                     {}, ret.n + 1)
            ELSE /\ files' = working
                 /\ ret' = Ret("prepare_game_files", "ok", NoId, {}, ret.n + 1)
                 /\ UNCHANGED <<log, provider>>

-----------------------------------------------------------------------------
(* ConfigComposer: _substitute_config, get_game_launcher_config,           *)
(* get_game_config.  Config values are scalars: strings and booleans.      *)

\* a config key that is not a string (a YAML integer key)
NonStrKey == "<int 1>"

\* the sections and the service stamps of the composed configuration; the
\* other stamps (name, script, variables, version, slugs, year) are copies of
\* installer fields
Config(game, system, runnersec) ==
    [game |-> game, system |-> system, runnersec |-> runnersec,
     requires |-> script.requires, service |-> service,
     service_id |-> IF Truthy(service) THEN service_appid ELSE None]

EmptyConfig ==
    [game |-> EmptySec, system |-> EmptySec, runnersec |-> EmptySec,
     requires |-> None, service |-> None, service_id |-> None]

Ok(sec) == [status |-> "ok", sec |-> sec]
Raise(status) == [status |-> status, sec |-> EmptySec]

\* the normalisation of "true" and "false" and the substitution of one value
SubstitutedValue(v) ==
    LET value == IF Lower(v.text) = "true" THEN Bool(TRUE)
                 ELSE IF Lower(v.text) = "false" THEN Bool(FALSE)
                 ELSE v
    IN IF value.kind = "bool" THEN value ELSE _substitute(value)

_substitute_config(script_config) ==
    IF NonStrKey \in DOMAIN script_config THEN Raise("ScriptingError")
    ELSE Ok([key \in DOMAIN script_config |-> SubstitutedValue(script_config[key])])

\* os.path.join(target_path, launcher_value)
JoinTarget(launcher_value) ==
    CASE launcher_value = "game.bin" -> "/target/game.bin"
      [] launcher_value = "$GAMEDIR/game" -> "/target/$GAMEDIR/game"
      [] OTHER -> launcher_value

\* get_game_launcher of lutris.installer.legacy: the root-level exe of the script
get_game_launcher(scr) == IF Truthy(scr.exe) THEN "exe" ELSE None

get_game_launcher_config(scr, game_files) ==
    LET launcher_value == scr.exe IN
    IF ~Truthy(launcher_value) THEN Str(None, 0)
    ELSE IF launcher_value \in DOMAIN game_files
        THEN Str(game_files[launcher_value], 0)
    ELSE IF interp.target_path_has_launcher
        THEN Str(JoinTarget(launcher_value), 0)
    ELSE Str(launcher_value, 0)

\* the game section once the launcher shortcut is folded into it
WithLauncher(game, scr) ==
    IF Truthy(get_game_launcher(scr))
    THEN DictUpdate(game, [k \in {get_game_launcher(scr)} |->
                              get_game_launcher_config(scr, interp.game_files)])
    ELSE game

\* the game section after the script's game section is merged over it
MergedGame(game, scr) ==
    IF scr.hasGame THEN _substitute_config(DictUpdate(game, scr.game))
    ELSE Ok(game)

\* LutrisConfig(runner_slug, game_config_id).game_level
game_level(configpath) ==
    IF configpath \in DOMAIN configs
    THEN [game |-> configs[configpath].game, system |-> configs[configpath].system,
          runnersec |-> configs[configpath].runnersec]
    ELSE [game |-> EmptySec, system |-> EmptySec, runnersec |-> EmptySec]

required_game(scr) ==
    LET byInstaller == get_game_by_field(scr.requires, "installer_slug") IN
    IF TruthyId(byInstaller) THEN byInstaller
    ELSE get_game_by_field(scr.requires, "slug")

RequiredLookups(scr) ==
    IF ~Truthy(scr.requires) THEN <<>>
    ELSE IF TruthyId(get_game_by_field(scr.requires, "installer_slug"))
        THEN <<Lookup(scr.requires, "installer_slug")>>
    ELSE <<Lookup(scr.requires, "installer_slug"), Lookup(scr.requires, "slug")>>

\* the executable auto-detection of the game section
AutoExe(game) ==
    IF "exe" \notin DOMAIN game THEN Ok(game)
    ELSE IF game["exe"].kind = "bool" THEN Raise("TypeError")
    ELSE IF game["exe"].text = AUTO_ELF_EXE
        THEN Ok([game EXCEPT !["exe"] = Str("/target/game.x86_64", 0)])
    ELSE IF game["exe"].text = AUTO_WIN32_EXE
        THEN Ok([game EXCEPT !["exe"] = Str("/target/game.exe", 0)])
    ELSE Ok(game)

AutoExeCalls(game) ==
    IF "exe" \in DOMAIN game /\ game["exe"].kind = "str"
    THEN IF game["exe"].text = AUTO_ELF_EXE
         THEN <<Ev("find_linux_game_executable", 0, 0)>>
         ELSE IF game["exe"].text = AUTO_WIN32_EXE
         THEN <<Ev("find_windows_game_executable", 0, 0)>>
         ELSE <<>>
    ELSE <<>>

Composed(status, cfg, calls) == [status |-> status, config |-> cfg, calls |-> calls]

get_game_config(scr) ==
    LET lookups == RequiredLookups(scr)
        found == ~Truthy(scr.requires) \/ TruthyId(required_game(scr))
        base == IF Truthy(scr.requires) /\ found
                THEN game_level(store[required_game(scr)].configpath)
                ELSE [game |-> EmptySec, system |-> EmptySec, runnersec |-> EmptySec]
        system == IF scr.hasSystem THEN _substitute_config(scr.system)
                  ELSE Ok(base.system)
        runnersec == IF scr.runnersec # EmptySec THEN _substitute_config(scr.runnersec)
                     ELSE Ok(base.runnersec)
        merged == MergedGame(WithLauncher(base.game, scr), scr)
        game == IF scr.hasGame /\ merged.status = "ok" THEN AutoExe(merged.sec)
                ELSE merged
        finders == IF scr.hasGame /\ merged.status = "ok" THEN AutoExeCalls(merged.sec)
                   ELSE <<>>
    IN
    IF ~found THEN Composed("ValueError", EmptyConfig, lookups)
    ELSE IF system.status # "ok" THEN Composed(system.status, EmptyConfig, lookups)
    ELSE IF runnersec.status # "ok" THEN Composed(runnersec.status, EmptyConfig, lookups)
    ELSE IF game.status # "ok" THEN Composed(game.status, EmptyConfig, lookups \o finders)
    ELSE Composed("ok", Config(game.sec, system.sec, runnersec.sec), lookups \o finders)

call_get_game_config ==
    /\ constructed
    /\ ret.n < MaxCalls
    /\ LET composed == get_game_config(script) IN
       /\ config' = IF composed.status = "ok" THEN composed.config ELSE config
       /\ log' = log \o composed.calls
       /\ ret' = Ret("get_game_config", composed.status, NoId, {}, ret.n + 1)
    /\ UNCHANGED <<installer, script, script0, store0, ctorArgs, interp, provider,
                   constructed, service, service_appid, game_id, game_id0,
                   is_gog, script_files, files, store, configs>>

-----------------------------------------------------------------------------
(* InstallRecorder: save *)

\* the test of save as it would be if it read `requires`
IsExtensionByRequires(scr) == Truthy(scr.requires)

\* line 264: the install is an extension of an existing game
IsExtension(scr) == Truthy(scr.extends)

\* convert_gog_config_to_lutris(gog_config, gog_game_path)
GogLutrisConfig ==
    [k \in {"exe", "working_dir"} |->
        IF k = "exe" THEN Str("/target/gog/start.exe", 0) ELSE Str("/target/gog", 0)]

\* the keyword arguments of add_or_update that the games table keeps
UpsertParams(configpath) ==
    [id |-> game_id, slug |-> installer.game_slug, installed |-> TRUE,
     installer_slug |-> installer.slug, configpath |-> configpath]

Row(params) ==
    [slug |-> params.slug, installed |-> params.installed,
     installer_slug |-> params.installer_slug, configpath |-> params.configpath]

\* add_or_update: the row with the given id is updated; with no id, or an id
\* the table does not hold, a row is inserted under a new id
UpsertId(params) ==
    IF TruthyId(params.id) /\ params.id \in DOMAIN store THEN params.id
    ELSE Len(store) + 1

add_or_update(params) ==
    IF UpsertId(params) \in DOMAIN store
    THEN [store EXCEPT ![UpsertId(params)] = Row(params)]
    ELSE Append(store, Row(params))

\* the adaptation as it would be if save did not test self.is_gog
GogAppliesWithoutFlag == interp.gog_manifest

\* lines 271-273: the install is marked as GOG and its target holds a GOG
\* manifest (get_gog_config_from_path returns one)
GogApplies == is_gog /\ interp.gog_manifest

\* import_runner(self.runner) raises for a runner that does not exist
InvalidRunner == ~Truthy(installer.runner)

\* save as it would be if it returned the id without keeping it
AssignedGameIdDropped(old, returned) == old

\* the value save assigns to self.game_id from what add_or_update returned
AssignedGameId(old, returned) == returned

\* save as it would be if it upserted the row before writing the config
SaveCallsUpsertFirst(write, upsert) == <<upsert, write>>

\* the calls of a save that reaches the upsert, in order
SaveCalls(write, upsert) == <<write, upsert>>

save ==
    /\ constructed
    /\ ret.n < MaxCalls
    /\ UNCHANGED <<installer, script0, store0, ctorArgs, interp, provider, constructed,
                   service, service_appid, game_id0, is_gog, script_files,
                   files, config>>
    /\ IF IsExtension(script)
       THEN /\ ret' = Ret("save", "ok", game_id, {}, ret.n + 1)
            /\ UNCHANGED <<script, game_id, store, configs, log>>
       ELSE IF GogApplies /\ ~script.hasGame
       THEN \* self.script["game"] raises
            /\ ret' = Ret("save", "KeyError", NoId, {}, ret.n + 1)
            /\ UNCHANGED <<script, game_id, store, configs, log>>
       ELSE
       LET adapted == IF GogApplies
                      THEN [script EXCEPT !.game = DictUpdate(@, GogLutrisConfig)]
                      ELSE script
           composed == get_game_config(adapted)
           configpath == Len(configs) + 1
           write == Ev("write_game_config", configpath, 0)
           params == UpsertParams(configpath)
           upsert == Ev("add_or_update", UpsertId(params), configpath)
       IN
       /\ script' = adapted
       /\ IF composed.status # "ok"
          THEN /\ ret' = Ret("save", composed.status, NoId, {}, ret.n + 1)
               /\ log' = log \o composed.calls
               /\ UNCHANGED <<game_id, store, configs>>
          ELSE \/ \* write_game_config raises
                  /\ ret' = Ret("save", "WriteError", NoId, {}, ret.n + 1)
                  /\ log' = log \o composed.calls
                              \o <<Ev("write_game_config", NoId, 0)>>
                  /\ UNCHANGED <<game_id, store, configs>>
               \/ \* the config is written and import_runner raises
                  /\ InvalidRunner
                  /\ ret' = Ret("save", "InvalidRunner", NoId, {}, ret.n + 1)
                  /\ configs' = Append(configs, composed.config)
                  /\ log' = log \o composed.calls \o <<write>>
                  /\ UNCHANGED <<game_id, store>>
               \/ \* the config is written and add_or_update raises
                  /\ ~InvalidRunner
                  /\ ret' = Ret("save", "UpsertError", NoId, {}, ret.n + 1)
                  /\ configs' = Append(configs, composed.config)
                  /\ log' = log \o composed.calls
                              \o <<write, Ev("add_or_update", NoId, configpath)>>
                  /\ UNCHANGED <<game_id, store>>
               \/ \* the config is written and the row upserted
                  /\ ~InvalidRunner
                  /\ configs' = Append(configs, composed.config)
                  /\ store' = add_or_update(params)
                  /\ game_id' = AssignedGameId(game_id, UpsertId(params))
                  /\ log' = log \o composed.calls \o SaveCalls(write, upsert)
                  /\ ret' = Ret("save", "ok", game_id', {}, ret.n + 1)

\* the GOG install commands of the interpreter mark the installer
set_is_gog ==
    /\ constructed
    /\ ~is_gog
    /\ is_gog' = TRUE
    /\ UNCHANGED <<installer, script, script0, store0, ctorArgs, interp, provider,
                   constructed, service, service_appid, game_id, game_id0,
                   script_files, files, store, store0, configs, config, log, ret>>

-----------------------------------------------------------------------------
(* The inputs: installers, scripts, constructor arguments, environment *)

Installer(is_dlc, dlcid, steamid, gogid, humblestoreid, service_id, runner, version) ==
    [is_dlc |-> is_dlc, dlcid |-> dlcid, steamid |-> steamid, gogid |-> gogid,
     humblestoreid |-> humblestoreid, service_id |-> service_id,
     runner |-> runner, version |-> version,
     slug |-> "game-installer", game_slug |-> "game", name |-> "Game"]

PlainInstaller(runner) ==
    Installer(FALSE, None, None, None, None, None, runner, "Standard")

Script(requires, extends, hasGame, game, hasSystem, system, runnersec, exe, fs) ==
    [requires |-> requires, extends |-> extends, hasGame |-> hasGame,
     game |-> game, hasSystem |-> hasSystem, system |-> system,
     runnersec |-> runnersec, exe |-> exe, files |-> fs]

\* a section holding one key
One(key, value) == [k \in {key} |-> value]

\* the sequences of at most n elements of S
SeqsUpTo(S, n) == UNION {[1..m -> S] : m \in 0..n}

RowGame(installed) ==
    [slug |-> "game", installed |-> installed, installer_slug |-> "game-old",
     configpath |-> 0]
RowBase ==
    [slug |-> "base", installed |-> TRUE, installer_slug |-> "base-installer",
     configpath |-> 1]
RowBaseByInstaller ==
    [slug |-> "base-game", installed |-> TRUE, installer_slug |-> "base",
     configpath |-> 1]

\* the config file of the base game: written by an earlier install, its
\* values substituted once
BaseConfig ==
    [game |-> One("exe", Str("$GAMEDIR/game", 1)),
     system |-> One("env", Str("plain", 1)),
     runnersec |-> EmptySec,
     requires |-> None, service |-> None, service_id |-> None]

Interp(game_files, has_launcher, gog_manifest) ==
    [game_files |-> game_files, target_path_has_launcher |-> has_launcher,
     gog_manifest |-> gog_manifest, extras |-> {"soundtrack"}]

Provider(online, connected, has_extras) ==
    [online |-> online, connected |-> connected, has_extras |-> has_extras,
     selected_extras |-> {}]

InitWith(Installers, Scripts, Args, Interps, Providers, Stores) ==
    /\ installer \in Installers
    /\ script \in Scripts
    /\ script0 = script
    /\ ctorArgs \in Args
    /\ interp \in Interps
    /\ provider \in Providers
    /\ store \in Stores
    /\ store0 = store
    /\ configs = <<BaseConfig>>
    /\ constructed = FALSE
    /\ service = None
    /\ service_appid = None
    /\ game_id = NoId
    /\ game_id0 = NoId
    /\ is_gog = FALSE
    /\ script_files = <<>>
    /\ files = <<>>
    /\ config = EmptyConfig
    /\ log = <<>>
    /\ ret = Ret("new", "ok", NoId, {}, 0)

NoArgs == [service |-> None, appid |-> None]

-----------------------------------------------------------------------------
(* Identity and persistence: construction, validation, composition, save *)

RefValues == {None, "", "base"}

CommitScripts ==
    { Script(req, ext, g.hasGame, g.game, FALSE, EmptySec, EmptySec, None, <<>>) :
        req \in RefValues, ext \in RefValues,
        g \in { [hasGame |-> FALSE, game |-> EmptySec],
                [hasGame |-> TRUE, game |-> One("exe", Str("$INNER", 0))],
                [hasGame |-> TRUE, game |-> One(NonStrKey, Str("plain", 0))] } }

CommitStores ==
    { <<>>, <<RowGame(FALSE)>>, <<RowGame(TRUE)>>, <<RowBase>>,
      <<RowBase, RowGame(FALSE)>>, <<RowBaseByInstaller, RowGame(TRUE)>> }

InitCommit ==
    InitWith({PlainInstaller(r) : r \in {"linux", ""}}, CommitScripts, {NoArgs},
             {Interp(EmptySec, FALSE, m) : m \in BOOLEAN},
             {Provider(FALSE, FALSE, FALSE)}, CommitStores)

NextCommit ==
    \/ LutrisInstaller
    \/ get_errors
    \/ call_get_game_config
    \/ save
    \/ set_is_gog

SpecCommit == InitCommit /\ [][NextCommit]_vars

\* the calls of one kind the log holds
Calls(op) == {i \in DOMAIN log : log[i].op = op}

\* the ids the upserts of this installer returned
UpsertedIds == {log[i].a : i \in {j \in Calls("add_or_update") : log[j].a # NoId}}

\* a step that is one call of the method op
CallOf(op) == ret'.op = op /\ ret'.n = ret.n + 1

\* the calls a step added to the log
NewCalls == SubSeq(log', Len(log) + 1, Len(log'))

BothRefs == Truthy(script0.requires) /\ Truthy(script0.extends)

\* the rows of the games table, before construction, with the script's game slug
RowsOfSlug == {i \in DOMAIN store0 : store0[i].slug = installer.game_slug}
FirstRowOfSlug == CHOOSE i \in RowsOfSlug : \A j \in RowsOfSlug : i <= j

\* C1: for a script with `extends` set, save performs no config write and no
\* upsert, changes neither the games table nor self.game_id, and returns the
\* id get_game_id resolved at construction, which is the id of the row the
\* table already held for the game slug whenever it is an id at all.
C1_ExtensionCommitWritesNothing ==
    (constructed /\ Truthy(script0.extends)) =>
        /\ game_id = game_id0
        /\ store = store0
        /\ configs = <<BaseConfig>>
        /\ Calls("write_game_config") = {}
        /\ Calls("add_or_update") = {}
        /\ TruthyId(game_id0) => game_id0 \in RowsOfSlug
        /\ ret.op = "save" => (ret.status = "ok" /\ ret.val = game_id0)

C1_Witness ==
    /\ ret.op = "save"
    /\ Truthy(script0.extends)
    /\ TruthyId(game_id0)
    /\ ret.val = game_id0

\* C2 as stated: get_game_id returns an id only if `extends` is set, or neither
\* `extends` nor `requires` is set and the existing row is not installed.
C2_IdOnlyWithoutRequires ==
    (constructed /\ TruthyId(game_id0)) =>
        \/ Truthy(script0.extends)
        \/ /\ ~Truthy(script0.extends)
           /\ ~Truthy(script0.requires)
           /\ ~store0[game_id0].installed

\* C2 amended: get_game_id returns the id of the first row of the script's
\* game slug exactly when such a row exists and `extends` is set or the row
\* is not installed, whatever `requires` is; otherwise it returns no id; the
\* lookup leaves the games table as it was.
C2_IdResolution ==
    constructed =>
        /\ game_id0 = IF RowsOfSlug # {}
                         /\ (Truthy(script0.extends)
                             \/ ~store0[FirstRowOfSlug].installed)
                      THEN FirstRowOfSlug ELSE NoId
        /\ ret.op = "__init__" => store = store0

C2_Witness ==
    /\ ret.op = "__init__"
    /\ Truthy(script0.requires)
    /\ ~Truthy(script0.extends)
    /\ TruthyId(game_id0)
    /\ ~store0[game_id0].installed

\* C8, the order: every upsert in the log directly follows a config write
\* that returned a handle, and carries that handle.
UpsertFollowsWrite ==
    \A i \in Calls("add_or_update") :
        /\ i > 1
        /\ log[i - 1].op = "write_game_config"
        /\ log[i - 1].a # NoId
        /\ log[i].b = log[i - 1].a

\* C8, the failures: a save of a non-extending install whose composition or
\* config write fails reports the failure, makes no upsert and leaves
\* self.game_id and the games table as they were.
FailedSaveMakesNoUpsert ==
    (CallOf("save") /\ ~Truthy(script0.extends)
     /\ (get_game_config(script').status # "ok" \/ ret'.status = "WriteError")) =>
        /\ ret'.status # "ok"
        /\ \A i \in DOMAIN NewCalls : NewCalls[i].op # "add_or_update"
        /\ game_id' = game_id
        /\ store' = store

\* C8: in save of a non-extending install the config write comes strictly
\* before the upsert, which carries the handle the write returned; if the
\* composition or the write fails there is no upsert, the failure reaches the
\* caller and self.game_id is unchanged.
C8_WriteBeforeUpsert == [](UpsertFollowsWrite) /\ [][FailedSaveMakesNoUpsert]_vars

C8_Witness ==
    /\ ret.op = "save"
    /\ ret.status = "ok"
    /\ ~Truthy(script0.extends)
    /\ Calls("add_or_update") # {}
    /\ Len(configs) > 1

\* C9 as stated: on a script with both `requires` and `extends`, get_errors
\* lists the finding and no other component is invoked: no store lookup, no
\* service binding, no planning, composition or commit.
C9_NothingElseInvoked ==
    BothRefs =>
        /\ ret.op = "get_errors" => ErrBoth \in ret.errors
        /\ log = <<>>
        /\ ret.op \in {"new", "get_errors"}

\* C9 amended: on a script with both `requires` and `extends`, get_errors
\* lists the finding, and get_errors itself makes no call to a collaborator
\* and changes nothing; service binding and the identity lookup have run in
\* the constructor before it.
C9_GetErrorsFindsBoth ==
    [][(CallOf("get_errors") /\ BothRefs) =>
          /\ ErrBoth \in ret'.errors
          /\ constructed
          /\ Calls("get_game_by_field") # {}
          /\ UNCHANGED <<script, store, configs, files, game_id, service,
                         service_appid, log, provider>>]_vars

C9_Witness ==
    /\ ret.op = "get_errors"
    /\ BothRefs
    /\ ErrBoth \in ret.errors

\* C10: for a non-extending install a successful save leaves self.game_id
\* equal to the id the upsert returned; all successful saves of one installer
\* upsert one and the same row: the row resolved at construction if there is
\* one, otherwise a row inserted by the first save.
C10_OneRecordPerInstaller ==
    (constructed /\ ~Truthy(script0.extends)) =>
        /\ Cardinality(UpsertedIds) <= 1
        /\ Len(store) <= Len(store0) + 1
        /\ (ret.op = "save" /\ ret.status = "ok") =>
               (game_id = ret.val /\ UpsertedIds = {ret.val})
        /\ TruthyId(game_id0) => UpsertedIds \subseteq {game_id0}
        /\ ~TruthyId(game_id0) => UpsertedIds \cap DOMAIN store0 = {}

C10_Witness ==
    /\ ~Truthy(script0.extends)
    /\ ~TruthyId(game_id0)
    /\ Cardinality({j \in Calls("add_or_update") : log[j].a # NoId}) >= 2
    /\ Len(store) = Len(store0) + 1

-----------------------------------------------------------------------------
(* File planning: construction and prepare_game_files *)

\* the session with the provider opens or expires (service.is_connected())
provider_session ==
    /\ constructed
    /\ Truthy(service)
    /\ provider' = [provider EXCEPT !.connected = ~@]
    /\ UNCHANGED <<installer, script, script0, store0, ctorArgs, interp,
                   constructed, service, service_appid, game_id, game_id0,
                   is_gog, script_files, files, store, configs, config, log, ret>>

\* the ids of the file declarations, by position: the ids are the keys of the
\* declarations, no two alike, and the code reads nothing from an id but
\* whether it equals another
FileIds == <<"installer", "patch", "manual", "extras">>
FileUrls == {ManualUrl, "http://host/$INNER", ModdbUrl}

FileLists ==
    UNION { { [i \in 1..m |-> File(FileIds[i], urls[i], "file.bin")] :
                urls \in [1..m -> FileUrls] } : m \in 0..MaxFiles }

PlanScripts ==
    { Script(None, None, FALSE, EmptySec, FALSE, EmptySec, EmptySec, None, fs) :
        fs \in FileLists }

InitPlan ==
    InitWith({PlainInstaller("linux")}, PlanScripts,
             {[service |-> svc, appid |-> None] : svc \in {None, "gog"}},
             {Interp(EmptySec, FALSE, FALSE)},
             {Provider(online, FALSE, extras) : online, extras \in BOOLEAN},
             {<<>>})

NextPlan ==
    \/ LutrisInstaller
    \/ \E patch_version \in {None, "1.1"} : prepare_game_files(patch_version)
    \/ provider_session

SpecPlan == InitPlan /\ [][NextPlan]_vars

FileListRequests == Calls("get_installer_files") \cup Calls("get_patch_files")

\* C3: a prepare_game_files call on a script with declared files, with a
\* provider bound that is online and has no session, raises
\* AuthenticationError having made no file-list request and with self.files
\* as it was before the call.
C3_AuthFailsBeforeAnyRequest ==
    [][(CallOf("prepare_game_files") /\ script_files # <<>> /\ Truthy(service)
        /\ provider.online /\ ~provider.connected) =>
          /\ ret'.status = "AuthenticationError"
          /\ log' = log
          /\ files' = files]_vars

C3_Witness ==
    /\ ret.op = "prepare_game_files"
    /\ ret.status = "AuthenticationError"
    /\ provider.online /\ ~provider.connected
    /\ files # <<>>
    /\ FileListRequests # {}

\* the declarations whose URL is the manual-entry sentinel
ManualDecls == {i \in DOMAIN script_files : StartsWithNA(script_files[i].url)}
HeldAside == CHOOSE i \in ManualDecls : \A j \in ManualDecls : i <= j

\* the position in the plan of the declaration at position i, i # HeldAside
PlanIndex(i) == IF i < HeldAside THEN i + 1 ELSE i

\* the last prepare_game_files call returned after the provider answered its
\* file-list request with an empty list
EmptyProviderAnswer ==
    /\ ret.op = "prepare_game_files"
    /\ ret.status = "ok"
    /\ Truthy(service)
    /\ ManualDecls # {}
    /\ log # <<>>
    /\ Len(log) \in FileListRequests
    /\ log[Len(log)].a = 0

-----------------------------------------------------------------------------
(* Configuration composition: get_game_config and the save that uses it *)

ConfigGames ==
    { [hasGame |-> FALSE, game |-> EmptySec],
      [hasGame |-> TRUE, game |-> One("exe", Str("$INNER", 0))],
      [hasGame |-> TRUE, game |-> One("exe", Str(AUTO_ELF_EXE, 0))],
      [hasGame |-> TRUE, game |-> One("exe", Str("TRUE", 0))],
      [hasGame |-> TRUE, game |-> One("args", Str("False", 0))] }

\* the system section of a script and its runner-named section
ConfigSystems ==
    { [hasSystem |-> FALSE, system |-> EmptySec, runnersec |-> EmptySec],
      [hasSystem |-> TRUE, system |-> One("env", Str("$GAMEDIR/game", 0)),
       runnersec |-> One("fullscreen", Str("true", 0))],
      [hasSystem |-> TRUE, system |-> One(NonStrKey, Str("plain", 0)),
       runnersec |-> EmptySec] }

ConfigScripts ==
    { Script(req, None, g.hasGame, g.game, sys.hasSystem, sys.system,
             sys.runnersec, exe, <<>>) :
        req \in {None, "base"}, g \in ConfigGames, sys \in ConfigSystems,
        exe \in {None, "$GAMEDIR/game", "gamefile"} }

InitConfig ==
    InitWith({PlainInstaller("linux")}, ConfigScripts, {NoArgs},
             {Interp(t[1], t[2], m) :
                t \in { <<EmptySec, FALSE>>, <<EmptySec, TRUE>>,
                        <<One("gamefile", "/cache/gamefile"), FALSE>> },
                m \in BOOLEAN},
             {Provider(FALSE, FALSE, FALSE)}, {<<>>, <<RowBase>>})

NextConfig ==
    \/ LutrisInstaller
    \/ call_get_game_config
    \/ save
    \/ set_is_gog

SpecConfig == InitConfig /\ [][NextConfig]_vars

FinderResults == {"/target/game.x86_64", "/target/game.exe"}

\* the strings of a section of the composed configuration
StringsOf(sec) ==
    {sec[k] : k \in {j \in DOMAIN sec : sec[j].kind = "str"
                                         /\ sec[j].text \notin FinderResults}}

\* C6: in every configuration get_game_config returns, every scalar string of
\* the system, runner-named and game sections has had variable substitution
\* applied exactly once: not zero times, not twice.
C6_SubstitutedExactlyOnce ==
    (ret.op = "get_game_config" /\ ret.status = "ok") =>
        \A v \in StringsOf(config.system) \cup StringsOf(config.runnersec)
                 \cup StringsOf(config.game) : v.subs = 1

-----------------------------------------------------------------------------
(* Service binding: get_service and get_appid in the constructor *)

IdValues(id) == {None, id}

BindInstallers ==
    { Installer(dlc, dlcid, steamid, gogid, humblestoreid, service_id, rv[1], rv[2]) :
        dlc \in BOOLEAN, dlcid \in IdValues("dlc-1"), steamid \in IdValues("steam-1"),
        gogid \in IdValues("gog-1"), humblestoreid \in IdValues("humble-1"),
        service_id \in IdValues("generic-1"),
        rv \in { <<"linux", "Standard">>, <<"linux", "GOG release">>,
                 <<"linux", "Humble Bundle">>, <<"winesteam", "GOG release">>,
                 <<"steam", "Standard">>, <<"libretro", "Standard">> } }

BindScripts ==
    { Script(None, None, g.hasGame, g.game, FALSE, EmptySec, EmptySec, None, <<>>) :
        g \in { [hasGame |-> FALSE, game |-> EmptySec],
                [hasGame |-> TRUE, game |-> One("gogid", Str("gog-game-1", 0))],
                [hasGame |-> TRUE, game |-> One("humbleid", Str("humble-game-1", 0))] } }

InitBind ==
    InitWith(BindInstallers, BindScripts,
             {[service |-> svc, appid |-> id] :
                svc \in {None} \cup SERVICES, id \in IdValues("explicit-1")},
             {Interp(EmptySec, FALSE, FALSE)}, {Provider(FALSE, FALSE, FALSE)},
             {<<>>})

NextBind ==
    \/ LutrisInstaller
    \/ get_errors

SpecBind == InitBind /\ [][NextBind]_vars

\* the first non-empty value of a list of candidates, or None
RECURSIVE FirstNonEmpty(_)
FirstNonEmpty(candidates) ==
    IF candidates = <<>> THEN None
    ELSE IF Truthy(Head(candidates)) THEN Head(candidates)
    ELSE FirstNonEmpty(Tail(candidates))

\* the provider-specific identifier fields of each provider, in order
ProviderFields(svc) ==
    CASE svc = "steam" -> <<installer.steamid>>
      [] svc = "gog" -> <<SecGet(script0.game, "gogid"), installer.gogid>>
      [] svc = "humblebundle" ->
            <<SecGet(script0.game, "humbleid"), installer.humblestoreid>>
      [] OTHER -> <<>>

\* C7 as stated: the DLC identifier of a DLC script; else the caller's
\* identifier; else, with a provider bound, the first non-empty
\* provider-specific field of that provider, else the generic service_id;
\* with no provider and no caller's identifier, none.
C7_PrecedenceForEveryProvider ==
    constructed =>
        service_appid =
            IF installer.is_dlc THEN installer.dlcid
            ELSE IF Truthy(ctorArgs.appid) THEN ctorArgs.appid
            ELSE IF Truthy(service)
                THEN FirstNonEmpty(ProviderFields(service) \o <<installer.service_id>>)
            ELSE None

\* C7 amended: as stated when the bound provider is steam, gog or
\* humblebundle; with any other provider bound, as with none, a script that
\* is not DLC and has no caller's identifier gets no identifier, whatever its
\* service_id field holds.
C7_PrecedenceForKnownProviders ==
    constructed =>
        service_appid =
            IF installer.is_dlc THEN installer.dlcid
            ELSE IF Truthy(ctorArgs.appid) THEN ctorArgs.appid
            ELSE IF service \in {"steam", "gog", "humblebundle"}
                THEN FirstNonEmpty(ProviderFields(service) \o <<installer.service_id>>)
            ELSE None

C7_Witness ==
    /\ constructed
    /\ installer.is_dlc
    /\ Truthy(ctorArgs.appid)
    /\ Truthy(installer.dlcid)
    /\ service_appid = installer.dlcid

====
